---- MODULE Spec2Model ----
(***************************************************************************)
(* Model of the smith_address crate: the 32-byte Address union and its     *)
(* Immediate encoding (src/smith_address/src/lib.rs, immediate.rs,         *)
(* reference.rs).  Byte arrays are sequences of length 32 over 0..255;     *)
(* Rust index i is position i + 1 of the sequence.                         *)
(***************************************************************************)
EXTENDS Integers, Sequences, FiniteSets

VARIABLES
    pc,         \* position of the calling code
    origin,     \* how `imm` was constructed: "none", "from_auxiliary", "EMPTY"
    aux_in,     \* argument of the last Immediate::from_auxiliary call
    imm,        \* Option<Immediate> held by the caller
    writes,     \* number of writes made through auxiliary_mut() slices
    view,       \* result of the last auxiliary() call
    raw_in,     \* argument of the last Immediate::from_bytes call
    decoded,    \* Option<&Immediate> returned by Immediate::from_bytes
    addr,       \* Option<Address>: the 32 bytes of the union
    r_imm,      \* result of Address::as_immediate
    r_ext,      \* result of Address::as_external
    r_imm_mut,  \* result of Address::as_immediate_mut
    r_ext_mut,  \* result of Address::as_external_mut
    other,      \* a second Option<Immediate> (for comparisons)
    eq_imm,     \* result of Immediate == Immediate
    eq_addr     \* result of Address == Address

vars == <<pc, origin, aux_in, imm, writes, view, raw_in, decoded, addr,
          r_imm, r_ext, r_imm_mut, r_ext_mut, other, eq_imm, eq_addr>>

----------------------------------------------------------------------------
(* Bounds of the model. *)

\* longest auxiliary slice handed to from_auxiliary (31 is the largest accepted)
MaxAuxLen == 33

\* number of leading auxiliary bytes chosen independently of the fill byte
MaxVary == 1

\* number of writes made through auxiliary_mut() in the encode scenario
MaxWrites == 1

\* byte values used for inputs and writes
ByteSamples == {0, 1, 255}

----------------------------------------------------------------------------
(* Machine arithmetic on u8. *)

U8 == 256

ADDRESS_SIZE == 32

RECURSIVE BitAndN(_, _, _)
BitAndN(a, b, n) ==
    IF n = 0 THEN 0
    ELSE ((a % 2) * (b % 2)) + 2 * BitAndN(a \div 2, b \div 2, n - 1)

BitAnd(a, b) == BitAndN(a, b, 8)

RECURSIVE BitOrN(_, _, _)
BitOrN(a, b, n) ==
    IF n = 0 THEN 0
    ELSE (IF (a % 2) + (b % 2) > 0 THEN 1 ELSE 0)
         + 2 * BitOrN(a \div 2, b \div 2, n - 1)

BitOr(a, b) == BitOrN(a, b, 8)

RECURSIVE Pow2(_)
Pow2(k) == IF k = 0 THEN 1 ELSE 2 * Pow2(k - 1)

Shr(x, k) == x \div Pow2(k)

Shl8(x, k) == (x * Pow2(k)) % U8

AsU8(n) == n % U8

----------------------------------------------------------------------------
(* Option and Result values. *)

None == [tag |-> "None"]

Some(x) == [tag |-> "Some", val |-> x]

IsSome(o) == o.tag = "Some"

Ok(kind, bytes) == [tag |-> "Ok", kind |-> kind, bytes |-> bytes]

Err(kind, bytes) == [tag |-> "Err", kind |-> kind, bytes |-> bytes]

\* &bytes[lo .. hi] for 0 <= lo <= hi <= len
Slice(bytes, lo, hi) == SubSeq(bytes, lo + 1, hi)

----------------------------------------------------------------------------
(* impl Immediate *)

\* EMPTY without the set bit of the metadata byte
EMPTY_all_zero == [i \in 1..ADDRESS_SIZE |-> 0]

EMPTY == [i \in 1..ADDRESS_SIZE |-> IF i = ADDRESS_SIZE THEN 1 ELSE 0]

from_bytes_unchecked(bytes) == bytes

from_bytes(bytes) ==
    IF BitAnd(bytes[32], 131) # 1
    THEN None
    ELSE LET len == Shr(bytes[32], 2) IN
         IF \E i \in (len + 1)..32 : bytes[i] # 0
         THEN None
         ELSE Some(from_bytes_unchecked(bytes))

as_bytes(self) == self

\* from_auxiliary rejecting 31 bytes as well
from_auxiliary_off_by_one(auxiliary) ==
    IF Len(auxiliary) >= 31
    THEN None
    ELSE LET copied == [i \in 1..ADDRESS_SIZE |->
                           IF i <= Len(auxiliary) THEN auxiliary[i] ELSE 0]
         IN Some([copied EXCEPT
                    ![32] = BitOr(Shl8(AsU8(Len(auxiliary)), 2), 1)])

from_auxiliary(auxiliary) ==
    IF Len(auxiliary) > 31
    THEN None
    ELSE LET copied == [i \in 1..ADDRESS_SIZE |->
                           IF i <= Len(auxiliary) THEN auxiliary[i] ELSE 0]
         IN Some([copied EXCEPT
                    ![32] = BitOr(Shl8(AsU8(Len(auxiliary)), 2), 1)])

\* the length that auxiliary() and auxiliary_mut() read from the metadata byte
aux_len(self) == Shr(self[32], 2)

\* self.bytes.get_unchecked(0 .. len): inside the array it is the slice;
\* beyond the array it is undefined behaviour, modelled as the 32 bytes
\* followed by whatever `junk` lies behind them
get_unchecked(bytes, len, junk) ==
    IF len <= ADDRESS_SIZE
    THEN Slice(bytes, 0, len)
    ELSE bytes \o [i \in 1..(len - ADDRESS_SIZE) |-> junk]

\* auxiliary() shifting the metadata byte by one bit only
auxiliary_shift_one(self) == get_unchecked(self, Shr(self[32], 1), 0)

auxiliary(self) == get_unchecked(self, aux_len(self), 0)

\* a call whose slice left the array did not return
Fault == [tag |-> "Fault"]

\* what a call of auxiliary() can produce: the slice when it lies inside the
\* array; otherwise (undefined behaviour) a fault or a slice running over
\* whatever follows the array
auxiliary_outcomes(self) ==
    IF aux_len(self) <= ADDRESS_SIZE
    THEN {Some(auxiliary(self))}
    ELSE {Some(get_unchecked(self, aux_len(self), j)) : j \in ByteSamples}
         \cup {Fault}

\* auxiliary_mut() handing out one byte too many
auxiliary_mut_one_more(self) == 0 .. aux_len(self)

\* index range of the slice returned by auxiliary_mut()
auxiliary_mut(self) == 0 .. (aux_len(self) - 1)

----------------------------------------------------------------------------
(* impl Address *)

as_immediate(bytes) ==
    IF BitAnd(bytes[32], 1) = 0
    THEN Ok("Immediate", bytes)
    ELSE Err("Reference", bytes)

\* as_immediate_mut testing two bits instead of one
as_immediate_mut_two_bits(bytes) ==
    IF BitAnd(bytes[32], 3) = 0
    THEN Ok("Immediate", bytes)
    ELSE Err("Reference", bytes)

as_immediate_mut(bytes) ==
    IF BitAnd(bytes[32], 1) = 0
    THEN Ok("Immediate", bytes)
    ELSE Err("Reference", bytes)

as_external(bytes) ==
    LET r == as_immediate(bytes) IN
    IF r.tag = "Ok" THEN Err(r.kind, r.bytes) ELSE Ok(r.kind, r.bytes)

as_external_mut(bytes) ==
    LET r == as_immediate_mut(bytes) IN
    IF r.tag = "Ok" THEN Err(r.kind, r.bytes) ELSE Ok(r.kind, r.bytes)

address_as_bytes(self) == self

\* Address equality that leaves the last byte out
address_eq_without_last(self, other_addr) ==
    Slice(address_as_bytes(self), 0, 31) = Slice(address_as_bytes(other_addr), 0, 31)

address_eq(self, other_addr) == address_as_bytes(self) = address_as_bytes(other_addr)

\* #[derive(PartialEq)] on Immediate: field-wise comparison of `bytes`
immediate_eq(self, other_imm) == self = other_imm

----------------------------------------------------------------------------
(* Inputs supplied by callers. *)

\* all sequences over S of length exactly n
RECURSIVE SeqsOfLen(_, _)
SeqsOfLen(S, n) ==
    IF n = 0 THEN {<<>>}
    ELSE {Append(s, b) : s \in SeqsOfLen(S, n - 1), b \in S}

Min(a, b) == IF a < b THEN a ELSE b

\* auxiliary slices: a free prefix of up to MaxVary bytes, then a fill byte
AuxInputs ==
    UNION {{[i \in 1..n |-> IF i <= Len(p) THEN p[i] ELSE f] :
                p \in SeqsOfLen(ByteSamples, Min(n, MaxVary)), f \in ByteSamples} :
           n \in 0..MaxAuxLen}

\* externally supplied 32-byte arrays: every metadata byte, over a body that
\* is all zero or has one non-zero byte
RawInputs ==
    {[i \in 1..ADDRESS_SIZE |-> IF i = ADDRESS_SIZE THEN m ELSE 0] : m \in 0..255}
    \cup
    {[i \in 1..ADDRESS_SIZE |->
         IF i = ADDRESS_SIZE THEN m ELSE IF i = p + 1 THEN v ELSE 0] :
        m \in 0..255, p \in 0..30, v \in ByteSamples \ {0}}

----------------------------------------------------------------------------
(* State after construction: nothing has been called yet. *)

Init ==
    /\ pc = "start"
    /\ origin = "none"
    /\ aux_in = <<>>
    /\ imm = None
    /\ writes = 0
    /\ view = None
    /\ raw_in = None
    /\ decoded = None
    /\ addr = None
    /\ r_imm = None
    /\ r_ext = None
    /\ r_imm_mut = None
    /\ r_ext_mut = None
    /\ other = None
    /\ eq_imm = None
    /\ eq_addr = None

----------------------------------------------------------------------------
(* Encode scenario: build an Immediate, rewrite its payload in place, read *)
(* it back, decode its raw bytes and dispatch on an Address holding it.    *)

\* let imm = Immediate::from_auxiliary(a);
FromAuxiliary ==
    /\ pc = "start"
    /\ \E a \in AuxInputs :
          /\ aux_in' = a
          /\ imm' = from_auxiliary(a)
    /\ origin' = "from_auxiliary"
    /\ pc' = "built"
    /\ UNCHANGED <<writes, view, raw_in, decoded, addr, r_imm, r_ext,
                   r_imm_mut, r_ext_mut, other, eq_imm, eq_addr>>

\* let imm = Immediate::EMPTY;
LoadEmpty ==
    /\ pc = "start"
    /\ imm' = Some(EMPTY)
    /\ origin' = "EMPTY"
    /\ pc' = "built"
    /\ UNCHANGED <<aux_in, writes, view, raw_in, decoded, addr, r_imm, r_ext,
                   r_imm_mut, r_ext_mut, other, eq_imm, eq_addr>>

\* imm.auxiliary_mut()[i] = v;
AuxiliaryMutWrite ==
    /\ pc = "built"
    /\ IsSome(imm)
    /\ writes < MaxWrites
    /\ \E i \in auxiliary_mut(imm.val), v \in ByteSamples :
          imm' = Some([imm.val EXCEPT ![i + 1] = v])
    /\ writes' = writes + 1
    /\ UNCHANGED <<pc, origin, aux_in, view, raw_in, decoded, addr, r_imm,
                   r_ext, r_imm_mut, r_ext_mut, other, eq_imm, eq_addr>>

\* let view = imm.auxiliary();
Auxiliary ==
    /\ pc = "built"
    /\ IsSome(imm)
    /\ view' \in auxiliary_outcomes(imm.val)
    /\ pc' = "viewed"
    /\ UNCHANGED <<origin, aux_in, imm, writes, raw_in, decoded, addr, r_imm,
                   r_ext, r_imm_mut, r_ext_mut, other, eq_imm, eq_addr>>

\* let decoded = Immediate::from_bytes(imm.as_bytes());
FromBytesOfImmediate ==
    /\ pc = "viewed"
    /\ raw_in' = Some(as_bytes(imm.val))
    /\ decoded' = from_bytes(as_bytes(imm.val))
    /\ pc' = "decoded"
    /\ UNCHANGED <<origin, aux_in, imm, writes, view, addr, r_imm, r_ext,
                   r_imm_mut, r_ext_mut, other, eq_imm, eq_addr>>

\* let addr = Address{immediate: imm};
AddressOfImmediate ==
    /\ pc = "decoded"
    /\ addr' = Some(imm.val)
    /\ pc' = "wrapped"
    /\ UNCHANGED <<origin, aux_in, imm, writes, view, raw_in, decoded, r_imm,
                   r_ext, r_imm_mut, r_ext_mut, other, eq_imm, eq_addr>>

\* let r_imm = addr.as_immediate();
AsImmediate ==
    /\ pc = "wrapped"
    /\ r_imm' = Some(as_immediate(addr.val))
    /\ pc' = "as_immediate"
    /\ UNCHANGED <<origin, aux_in, imm, writes, view, raw_in, decoded, addr,
                   r_ext, r_imm_mut, r_ext_mut, other, eq_imm, eq_addr>>

\* let r_ext = addr.as_external();
AsExternal ==
    /\ pc = "as_immediate"
    /\ r_ext' = Some(as_external(addr.val))
    /\ pc' = "as_external"
    /\ UNCHANGED <<origin, aux_in, imm, writes, view, raw_in, decoded, addr,
                   r_imm, r_imm_mut, r_ext_mut, other, eq_imm, eq_addr>>

\* let r_imm_mut = addr.as_immediate_mut();
AsImmediateMut ==
    /\ pc = "as_external"
    /\ r_imm_mut' = Some(as_immediate_mut(addr.val))
    /\ pc' = "as_immediate_mut"
    /\ UNCHANGED <<origin, aux_in, imm, writes, view, raw_in, decoded, addr,
                   r_imm, r_ext, r_ext_mut, other, eq_imm, eq_addr>>

\* let r_ext_mut = addr.as_external_mut();
AsExternalMut ==
    /\ pc = "as_immediate_mut"
    /\ r_ext_mut' = Some(as_external_mut(addr.val))
    /\ pc' = "as_external_mut"
    /\ UNCHANGED <<origin, aux_in, imm, writes, view, raw_in, decoded, addr,
                   r_imm, r_ext, r_imm_mut, other, eq_imm, eq_addr>>

Next ==
    \/ FromAuxiliary
    \/ LoadEmpty
    \/ AuxiliaryMutWrite
    \/ Auxiliary
    \/ FromBytesOfImmediate
    \/ AddressOfImmediate
    \/ AsImmediate
    \/ AsExternal
    \/ AsImmediateMut
    \/ AsExternalMut

Spec == Init /\ [][Next]_vars

----------------------------------------------------------------------------
(* Raw scenario: 32 externally supplied bytes are validated with           *)
(* from_bytes, then held as an Address and dispatched on; the Immediate    *)
(* view that as_immediate hands out is read with auxiliary().              *)

\* the caller receives 32 bytes
SupplyBytes ==
    /\ pc = "start"
    /\ \E r \in RawInputs : raw_in' = Some(r)
    /\ pc' = "supplied"
    /\ UNCHANGED <<origin, aux_in, imm, writes, view, decoded, addr, r_imm,
                   r_ext, r_imm_mut, r_ext_mut, other, eq_imm, eq_addr>>

\* let decoded = Immediate::from_bytes(&raw);
FromBytes ==
    /\ pc = "supplied"
    /\ decoded' = from_bytes(raw_in.val)
    /\ pc' = "checked"
    /\ UNCHANGED <<origin, aux_in, imm, writes, view, raw_in, addr, r_imm,
                   r_ext, r_imm_mut, r_ext_mut, other, eq_imm, eq_addr>>

\* let addr = Address{bytes: raw};
AddressOfBytes ==
    /\ pc = "checked"
    /\ addr' = Some(raw_in.val)
    /\ pc' = "wrapped"
    /\ UNCHANGED <<origin, aux_in, imm, writes, view, raw_in, decoded, r_imm,
                   r_ext, r_imm_mut, r_ext_mut, other, eq_imm, eq_addr>>

\* if let Ok(i) = addr.as_immediate() { view = i.auxiliary(); }
AuxiliaryOfView ==
    /\ pc = "as_external_mut"
    /\ r_imm.val.tag = "Ok"
    /\ view' \in auxiliary_outcomes(r_imm.val.bytes)
    /\ pc' = "view_read"
    /\ UNCHANGED <<origin, aux_in, imm, writes, raw_in, decoded, addr, r_imm,
                   r_ext, r_imm_mut, r_ext_mut, other, eq_imm, eq_addr>>

NextRaw ==
    \/ SupplyBytes
    \/ FromBytes
    \/ AddressOfBytes
    \/ AsImmediate
    \/ AsExternal
    \/ AsImmediateMut
    \/ AsExternalMut
    \/ AuxiliaryOfView

SpecRaw == Init /\ [][NextRaw]_vars

----------------------------------------------------------------------------
(* Pair scenario: two Immediates are built, the payload of the first is    *)
(* rewritten in place, and they and the Addresses holding them are         *)
(* compared.                                                               *)

\* let other = Immediate::from_auxiliary(b);
SecondFromAuxiliary ==
    /\ pc = "built"
    /\ IsSome(imm)
    /\ \E b \in AuxInputs :
          /\ aux_in' = b
          /\ other' = from_auxiliary(b)
    /\ IsSome(other')
    /\ pc' = "pair"
    /\ UNCHANGED <<origin, imm, writes, view, raw_in, decoded, addr, r_imm,
                   r_ext, r_imm_mut, r_ext_mut, eq_imm, eq_addr>>

\* imm.auxiliary_mut()[i] = v; with i among the first MaxVary indices
PairWrite ==
    /\ pc = "pair"
    /\ writes < MaxWrites
    /\ \E i \in auxiliary_mut(imm.val) \cap (0 .. MaxVary - 1), v \in ByteSamples :
          imm' = Some([imm.val EXCEPT ![i + 1] = v])
    /\ writes' = writes + 1
    /\ UNCHANGED <<pc, origin, aux_in, view, raw_in, decoded, addr,
                   r_imm, r_ext, r_imm_mut, r_ext_mut, other, eq_imm, eq_addr>>

\* eq_imm = imm == other; eq_addr = Address{immediate: imm} == Address{immediate: other};
CompareEq ==
    /\ pc = "pair"
    /\ eq_imm' = Some(immediate_eq(imm.val, other.val))
    /\ eq_addr' = Some(address_eq(imm.val, other.val))
    /\ pc' = "compared"
    /\ UNCHANGED <<origin, aux_in, imm, writes, view, raw_in, decoded, addr,
                   r_imm, r_ext, r_imm_mut, r_ext_mut, other>>

NextPair ==
    \/ FromAuxiliary
    \/ SecondFromAuxiliary
    \/ PairWrite
    \/ CompareEq

SpecPair == Init /\ [][NextPair]_vars

----------------------------------------------------------------------------
(* The layout of an immediate address as documented on the Immediate type, *)
(* written with plain arithmetic on the metadata byte.                     *)

Bit(x, k) == (x \div Pow2(k)) % 2

\* bits 6..2 of the metadata byte
LengthField(bytes) == (bytes[32] \div 4) % 32

ValidLayout(bytes) ==
    /\ Bit(bytes[32], 7) = 0
    /\ Bit(bytes[32], 1) = 0
    /\ Bit(bytes[32], 0) = 1
    /\ \A i \in LengthField(bytes) .. 30 : bytes[i + 1] = 0

BytesIdentical(x, y) == \A i \in 1..32 : x[i] = y[i]

----------------------------------------------------------------------------
(* Properties. *)

\* C1: for every auxiliary slice a of at most 31 bytes, from_bytes applied to
\* the raw bytes of from_auxiliary(a) returns Some, and the auxiliary() of the
\* decoded view equals a.
C1_RoundTripChecked ==
    (pc = "decoded" /\ origin = "from_auxiliary" /\ writes = 0)
        => /\ IsSome(decoded)
           /\ auxiliary(decoded.val) = aux_in

\* C2: from_bytes returns Some exactly when the 32 bytes satisfy the layout
\* (bit 7 and bit 1 of byte 31 clear, bit 0 set, bytes L..30 zero), and None
\* otherwise.
C2_CheckedDecodeExact ==
    (pc = "checked") => (IsSome(decoded) <=> ValidLayout(raw_in.val))

\* C3: an Address holding the bytes of from_auxiliary(a) yields Ok(Immediate)
\* from as_immediate() and Err from as_external().
C3_EncodedIsImmediate ==
    (pc = "as_external" /\ origin = "from_auxiliary")
        => /\ r_imm.val.tag = "Ok"
           /\ r_imm.val.kind = "Immediate"
           /\ r_ext.val.tag = "Err"

C5_EncodingResult ==
    (origin = "from_auxiliary" /\ writes = 0)
        => LET L == Len(aux_in) IN
           /\ (imm = None) <=> (L > 31)
           /\ (L <= 31) =>
                 /\ IsSome(imm)
                 /\ Len(imm.val) = 32
                 /\ \A i \in 1..L : imm.val[i] = aux_in[i]
                 /\ \A i \in (L + 1)..31 : imm.val[i] = 0
                 /\ imm.val[32] = 4 * L + 1

C5_Witness ==
    /\ origin = "from_auxiliary"
    /\ writes = 0
    /\ Len(aux_in) = 31
    /\ aux_in[31] = 255
    /\ IsSome(imm)
    /\ imm.val[32] = 125

\* C6: for every auxiliary slice a of at most 31 bytes,
\* from_auxiliary(a).unwrap().auxiliary() is exactly a.
C6_RoundTripDirect ==
    (IsSome(view) /\ origin = "from_auxiliary" /\ writes = 0)
        => view.val = aux_in

C6_Witness ==
    /\ pc = "viewed"
    /\ origin = "from_auxiliary"
    /\ writes = 0
    /\ Len(aux_in) = 31
    /\ aux_in[1] = 255
    /\ aux_in[31] = 0
    /\ Len(view.val) = 31

\* C7: after any writes through auxiliary_mut() to an Immediate made by
\* from_auxiliary(a), auxiliary() still has len(a) bytes, every byte at index
\* >= len(a) (padding and metadata) is what from_auxiliary wrote, and the
\* layout invariants hold.
C7_MutationInvariant ==
    (origin = "from_auxiliary" /\ IsSome(imm))
        => LET L == Len(aux_in) IN
           /\ Len(auxiliary(imm.val)) = L
           /\ IsSome(view) => Len(view.val) = L
           /\ \A i \in (L + 1)..31 : imm.val[i] = 0
           /\ imm.val[32] = 4 * L + 1
           /\ ValidLayout(imm.val)

C7_Witness ==
    /\ origin = "from_auxiliary"
    /\ writes >= 1
    /\ Len(aux_in) = 31
    /\ IsSome(imm)
    /\ imm.val[31] # aux_in[31]
    /\ pc = "viewed"

\* C8: two Immediates made by from_auxiliary and auxiliary_mut writes have
\* identical raw bytes iff their auxiliary() payloads are equal; ==  on the
\* Immediates and on the Addresses holding them is byte-for-byte equality.
C8_CanonicalEquality ==
    (pc = "compared")
        => /\ BytesIdentical(imm.val, other.val)
                <=> (auxiliary(imm.val) = auxiliary(other.val))
           /\ eq_imm.val <=> BytesIdentical(imm.val, other.val)
           /\ eq_addr.val <=> BytesIdentical(imm.val, other.val)

C8_Witness ==
    /\ pc = "compared"
    /\ writes >= 1
    /\ eq_addr.val
    /\ eq_imm.val
    /\ aux_len(imm.val) = 31
    /\ imm.val[1] = 255
    /\ imm.val[31] = 0

\* C9: EMPTY is all zero except byte 31 = 0x01, EMPTY.auxiliary() is empty,
\* and EMPTY is byte-identical to from_auxiliary of the empty slice.
C9_EmptyContract ==
    (origin = "EMPTY" /\ writes = 0)
        => /\ Len(imm.val) = 32
           /\ \A i \in 1..31 : imm.val[i] = 0
           /\ imm.val[32] = 1
           /\ IsSome(view) => view.val = <<>>
           /\ IsSome(from_auxiliary(<<>>))
           /\ BytesIdentical(imm.val, from_auxiliary(<<>>).val)

C9_Witness ==
    /\ origin = "EMPTY"
    /\ pc = "viewed"
    /\ IsSome(view)

\* C10: every Immediate view obtained without from_bytes_unchecked (from
\* from_bytes, as_immediate, as_immediate_mut or the Err of as_external) has a
\* length field byte31 >> 2 of at most 31.
C10_LengthInBounds ==
    /\ IsSome(decoded) => decoded.val[32] \div 4 <= 31
    /\ (IsSome(r_imm) /\ r_imm.val.tag = "Ok")
          => r_imm.val.bytes[32] \div 4 <= 31
    /\ (IsSome(r_imm_mut) /\ r_imm_mut.val.tag = "Ok")
          => r_imm_mut.val.bytes[32] \div 4 <= 31
    /\ (IsSome(r_ext) /\ r_ext.val.tag = "Err")
          => r_ext.val.bytes[32] \div 4 <= 31

====
